---- MODULE Spec2Model ----
(***************************************************************************)
(* Poseidon sponge hasher (src/src/poseidon_hash.rs): the permutation      *)
(* state's round primitives, the permutation's round schedule, and the     *)
(* update/output (absorb/squeeze) protocol of PoseidonHash.                *)
(*                                                                         *)
(* The prime field F is scaled down to the integers modulo P.  Indices are *)
(* 1-based here: the code's word 0 is state[1], and the digest word        *)
(* state.inner[1] is state[2].                                             *)
(***************************************************************************)
EXTENDS Integers, Sequences, FiniteSets, TLC

\* ------------------------------------------------------------------ bounds
\* Modulus of the scaled-down field.
P == 3
\* Largest state width T (and largest RATE) a hasher type is instantiated at.
MaxT == 3
\* Largest pending buffer.
MaxBuf == 3
\* Largest batch one update call appends.
MaxBatch == 2
\* Absorbed elements are drawn from 0 .. MaxElem.
MaxElem == 1
\* Largest r_f / 2 of a parameter set.
MaxHalf == 2
\* Largest r_p of a parameter set.
MaxRP == 2
\* Entries of the matrices and constant vectors the round primitives are
\* tried on, and words of the states the permutation is tried on, are drawn
\* from 0 .. MaxCoef.
MaxCoef == 1

VARIABLES
    T,      \* const generic T: the state width
    RATE,   \* const generic RATE
    spec,   \* the Spec<F, T, RATE> handed to new
    phase,  \* "none": no hasher yet; "ready": constructed; "panicked"
    state,  \* PoseidonHash.state.inner
    buf,    \* PoseidonHash.buf
    op      \* the last operation: its name, argument, the permutation calls
            \* it made, the round steps of its last permutation, its result

vars == <<T, RATE, spec, phase, state, buf, op>>

\* ------------------------------------------------------------ field, helpers
Field == 0 .. (P - 1)

Min(a, b) == IF a <= b THEN a ELSE b

add(a, b) == (a + b) % P

mul(a, b) == (a * b) % P

ZERO == 0

ONE == 1 % P

Vectors(n, S) == [1 .. n -> S]

SeqsUpTo(n, S) == UNION {[1 .. k -> S] : k \in 0 .. n}

ZeroVector(n) == [i \in 1 .. n |-> ZERO]

\* ------------------------------------------------------- State<F, T, RATE>
\* let pow5 = |v| v.square() * v.square() * v
pow5(v) == mul(mul(mul(v, v), mul(v, v)), v)

sbox_full(inner, constants) ==
    [i \in 1 .. Len(inner) |->
        IF i <= Len(constants) THEN add(pow5(inner[i]), constants[i]) ELSE inner[i]]

sbox_part(inner, constant) ==
    [inner EXCEPT ![1] = add(pow5(inner[1]), constant)]

\* The two assertions that open pre_round: "dimension" when RATE != T - 1,
\* "overcapacity" when more than RATE inputs are fed, "none" when both pass.
pre_round_assert(t, rate, inputs) ==
    IF rate # t - 1 THEN "dimension"
    ELSE IF Len(inputs) > rate THEN "overcapacity"
    ELSE "none"

\* pre_round without the F::ONE of the first word after the inputs.
pre_round_nopad(inner, inputs, pre_constants) ==
    LET k == Len(inputs)
        s1 == [inner EXCEPT ![1] = add(inner[1], pre_constants[1])]
        s2 == [i \in 1 .. Len(inner) |->
                 IF i >= 2 /\ i - 1 <= k
                 THEN add(add(s1[i], inputs[i - 1]), pre_constants[i])
                 ELSE s1[i]]
    IN  [i \in 1 .. Len(inner) |->
           IF i > 1 + k THEN add(s2[i], pre_constants[i]) ELSE s2[i]]

\* The body of pre_round after its assertions, pass by pass: word 0, then the
\* words zipped with the inputs (skip(1)), then the words after them
\* (skip(1 + inputs.len())), the first of which (idx == 0) also gets F::ONE.
pre_round(inner, inputs, pre_constants) ==
    LET k == Len(inputs)
        s1 == [inner EXCEPT ![1] = add(inner[1], pre_constants[1])]
        s2 == [i \in 1 .. Len(inner) |->
                 IF i >= 2 /\ i - 1 <= k
                 THEN add(add(s1[i], inputs[i - 1]), pre_constants[i])
                 ELSE s1[i]]
    IN  [i \in 1 .. Len(inner) |->
           IF i > 1 + k
           THEN (IF i - (1 + k) - 1 = 0
                 THEN add(add(s2[i], ONE), pre_constants[i])
                 ELSE add(s2[i], pre_constants[i]))
           ELSE s2[i]]

\* row.zip(inner).fold(ZERO, |acc, (mij, sj)| acc + sj * mij), from pair j on.
RECURSIVE fold_dot(_, _, _, _)
fold_dot(row, inner, j, acc) ==
    IF j > Min(Len(row), Len(inner)) THEN acc
    ELSE fold_dot(row, inner, j + 1, add(acc, mul(inner[j], row[j])))

apply_mds(inner, mds) ==
    [i \in 1 .. Len(mds) |-> fold_dot(mds[i], inner, 1, ZERO)]

\* apply_sparse_mds reading the new word 0 instead of the old one.
apply_sparse_mds_updated(inner, mds) ==
    LET w0 == fold_dot(mds.row, inner, 1, ZERO)
    IN  <<w0>> \o
        [i \in 1 .. Min(Len(mds.col_hat), Len(inner) - 1) |->
            add(mul(mds.col_hat[i], w0), inner[i + 1])]

\* once(row . inner).chain(col_hat.zip(inner.skip(1)).map(coeff * inner[0] + s))
apply_sparse_mds(inner, mds) ==
    <<fold_dot(mds.row, inner, 1, ZERO)>> \o
    [i \in 1 .. Min(Len(mds.col_hat), Len(inner) - 1) |->
        add(mul(mds.col_hat[i], inner[1]), inner[i + 1])]

\* ------------------------------------------------ Spec<F, T, RATE> (inputs)
\* One parameter set per choice of lengths; the entries are fixed and differ
\* from one index to the next, so that a round step's argument tells which
\* constant or matrix it was given.
StartConstants(t, n) == [i \in 1 .. n |-> [j \in 1 .. t |-> (i + j - 1) % P]]

EndConstants(t, n) == [i \in 1 .. n |-> [j \in 1 .. t |-> i % P]]

PartialConstants(n) == [i \in 1 .. n |-> i % P]

\* The matrices are invertible (determinant 1), as MDS matrices and their
\* factors are: the permutation is a bijection of the states.
Mds(t) == [i \in 1 .. t |-> [j \in 1 .. t |-> IF j >= i THEN ONE ELSE ZERO]]

PreSparseMds(t) ==
    [i \in 1 .. t |-> [j \in 1 .. t |->
        IF j = i THEN ONE ELSE IF j < i THEN 2 % P ELSE ZERO]]

SparseRow(k, j) == (k + j) % P

SparseColHat(k, j) == (k * j + 1) % P

RECURSIVE SparsePivot(_, _)
SparsePivot(k, n) ==
    IF n = 0 THEN ONE
    ELSE add(SparsePivot(k, n - 1), mul(SparseRow(k, n + 1), SparseColHat(k, n)))

SparseMatrices(t, rate, n) ==
    [k \in 1 .. n |->
        [row |-> [j \in 1 .. t |->
                    IF j = 1 THEN SparsePivot(k, Min(t - 1, rate))
                    ELSE SparseRow(k, j)],
         col_hat |-> [j \in 1 .. rate |-> SparseColHat(k, j)]]]

MakeSpec(t, rate, rf, rp, nStart, nPartial, nSparse, nEnd) ==
    [r_f |-> rf, r_p |-> rp,
     start |-> StartConstants(t, nStart),
     partial |-> PartialConstants(nPartial),
     end |-> EndConstants(t, nEnd),
     mds |-> Mds(t),
     pre_sparse_mds |-> PreSparseMds(t),
     sparse_matrices |-> SparseMatrices(t, rate, nSparse)]

\* The data model's invariant on a parameter set.
WellFormed(s) ==
    /\ s.r_f % 2 = 0
    /\ s.r_f >= 2
    /\ Len(s.start) = s.r_f \div 2
    /\ Len(s.end) = s.r_f \div 2
    /\ Len(s.partial) = s.r_p
    /\ Len(s.sparse_matrices) = s.r_p

\* Parameter sets of every combination of lengths, well-formed or not; r_f
\* is even and at least 2.
AnySpecs(t, rate) ==
    {MakeSpec(t, rate, 2 * h, rp, nStart, nPartial, nSparse, nEnd) :
        h \in 1 .. MaxHalf, rp \in 0 .. MaxRP, nStart \in 0 .. MaxHalf,
        nPartial \in 0 .. MaxRP, nSparse \in 0 .. MaxRP, nEnd \in 0 .. MaxHalf}

WellFormedSpecs(t, rate) == {s \in AnySpecs(t, rate) : WellFormed(s)}

\* The largest well-formed parameter set.
FullSpec(t, rate) ==
    MakeSpec(t, rate, 2 * MaxHalf, MaxRP, MaxHalf, MaxRP, MaxRP, MaxHalf)

\* ------------------------------------------------ PoseidonHash::permutation
\* A round step is one call on self.state: its name and its argument.
Step(name, arg) == [op |-> name, arg |-> arg]

\* What one step does to the state.
apply_step(step, inner) ==
    CASE step.op = "pre_round" -> pre_round(inner, step.arg[1], step.arg[2])
      [] step.op = "sbox_full" -> sbox_full(inner, step.arg)
      [] step.op = "sbox_part" -> sbox_part(inner, step.arg[1])
      [] step.op = "apply_mds" -> apply_mds(inner, step.arg)
      [] step.op = "apply_sparse_mds" -> apply_sparse_mds(inner, step.arg)

\* for constants in constants[i ..= last] { sbox_full(constants); apply_mds(mds) }
RECURSIVE full_rounds(_, _, _, _)
full_rounds(constants, mds, i, last) ==
    IF i > last THEN <<>>
    ELSE <<Step("sbox_full", constants[i]), Step("apply_mds", mds)>>
         \o full_rounds(constants, mds, i + 1, last)

\* for (constant, sparse_mds) in constants.zip(sparse_matrices), from pair i on
RECURSIVE partial_rounds(_, _, _)
partial_rounds(constants, sparse_matrices, i) ==
    IF i > Min(Len(constants), Len(sparse_matrices)) THEN <<>>
    ELSE <<Step("sbox_part", <<constants[i]>>),
           Step("apply_sparse_mds", sparse_matrices[i])>>
         \o partial_rounds(constants, sparse_matrices, i + 1)

\* first_half with the ordinary dense matrix in the transition round.
first_half_dense(s, inputs) ==
    <<Step("pre_round", <<inputs, s.start[1]>>)>>
    \o full_rounds(s.start, s.mds, 2, Min(Len(s.start), s.r_f \div 2))
    \o <<Step("sbox_full", s.start[Len(s.start)]), Step("apply_mds", s.mds)>>

\* First half of the full rounds: pre_round(inputs, constants[0]); the rounds
\* of constants.iter().skip(1).take(r_f - 1), r_f being spec.r_f() / 2; then
\* sbox_full(constants.last()) with the pre-sparse matrix.
first_half(s, inputs) ==
    <<Step("pre_round", <<inputs, s.start[1]>>)>>
    \o full_rounds(s.start, s.mds, 2, Min(Len(s.start), s.r_f \div 2))
    \o <<Step("sbox_full", s.start[Len(s.start)]),
         Step("apply_mds", s.pre_sparse_mds)>>

\* Second half of the full rounds: every end constant, then the round with
\* the all-zero constants.
second_half(s, t) ==
    full_rounds(s.end, s.mds, 1, Len(s.end))
    \o <<Step("sbox_full", ZeroVector(t)), Step("apply_mds", s.mds)>>

\* The steps of one permutation call, in the order the code takes them.
round_steps(s, t, inputs) ==
    first_half(s, inputs) \o partial_rounds(s.partial, s.sparse_matrices, 1)
    \o second_half(s, t)

\* self.state after the steps from the i-th on.
RECURSIVE run_steps(_, _, _)
run_steps(inner, steps, i) ==
    IF i > Len(steps) THEN inner
    ELSE run_steps(apply_step(steps[i], inner), steps, i + 1)

Ran(steps, inner) ==
    [panic |-> "none", inner |-> run_steps(inner, steps, 1), trace |-> steps]

\* One permutation call: [panic, inner, trace].  constants[0] on an empty
\* start panics ("index"); pre_round's assertions panic before any word is
\* written.
permutation(t, rate, s, inner, inputs) ==
    IF Len(s.start) = 0
    THEN [panic |-> "index", inner |-> inner, trace |-> <<>>]
    ELSE IF pre_round_assert(t, rate, inputs) # "none"
    THEN [panic |-> pre_round_assert(t, rate, inputs), inner |-> inner,
          trace |-> <<>>]
    ELSE Ran(round_steps(s, t, inputs), inner)

\* ----------------------------------------- PoseidonHash::update and output
\* update putting the elements in front of the buffer.
update_prepend(b, elements) == elements \o b

\* self.buf.extend_from_slice(elements)
update(b, elements) == b \o elements

\* chunks of RATE + 1 elements.
RECURSIVE chunks_wide(_, _)
chunks_wide(b, n) ==
    IF Len(b) = 0 THEN <<>>
    ELSE IF Len(b) <= n + 1 THEN <<b>>
    ELSE <<SubSeq(b, 1, n + 1)>> \o chunks_wide(SubSeq(b, n + 2, Len(b)), n)

\* buf.chunks(RATE)
RECURSIVE chunks(_, _)
chunks(b, n) ==
    IF Len(b) = 0 THEN <<>>
    ELSE IF Len(b) <= n THEN <<b>>
    ELSE <<SubSeq(b, 1, n)>> \o chunks(SubSeq(b, n + 1, Len(b)), n)

\* The permutation calls of one output, in order, until one panics:
\* [panic, inner, calls, trace, before], calls being the inputs of every call
\* made, trace the round steps of the last one and before the state it found.
After(acc, r, inputs) ==
    [panic |-> r.panic, inner |-> r.inner, calls |-> Append(acc.calls, inputs),
     trace |-> r.trace, before |-> acc.inner]

RECURSIVE run_permutations(_, _, _, _, _, _)
run_permutations(t, rate, s, acc, todo, i) ==
    IF i > Len(todo) \/ acc.panic # "none" THEN acc
    ELSE run_permutations(t, rate, s,
             After(acc, permutation(t, rate, s, acc.inner, todo[i]), todo[i]),
             todo, i + 1)

\* output computing exact from self.buf after mem::take has emptied it.
output_exact_after_take(t, rate, s, inner, b) ==
    LET taken == b
        exact == Len(<<>>) % rate = 0
        todo == chunks(taken, rate) \o (IF exact THEN << <<>> >> ELSE <<>>)
    IN  run_permutations(t, rate, s,
            [panic |-> "none", inner |-> inner, calls |-> <<>>, trace |-> <<>>,
             before |-> inner],
            todo, 1)

\* let buf = mem::take(&mut self.buf); exact from the taken buffer's length;
\* one permutation per chunk, one more with no input if exact.
output(t, rate, s, inner, b) ==
    LET taken == b
        exact == Len(taken) % rate = 0
        todo == chunks(taken, rate) \o (IF exact THEN << <<>> >> ELSE <<>>)
    IN  run_permutations(t, rate, s,
            [panic |-> "none", inner |-> inner, calls |-> <<>>, trace |-> <<>>,
             before |-> inner],
            todo, 1)

\* poseidon::State::default().words()
InitialWords(t) == ZeroVector(t)

\* ------------------------------------------------------------------ actions
NoOp == [name |-> "init", arg |-> <<>>, pre |-> <<>>, calls |-> <<>>,
         trace |-> <<>>, before |-> <<>>, out |-> <<>>, panic |-> "none"]

Elems == 0 .. MaxElem

\* PoseidonHash::new(constants): no check of the dimensions or of the
\* parameter set; the state is the default words, the buffer empty.
New ==
    /\ phase = "none"
    /\ phase' = "ready"
    /\ state' = InitialWords(T)
    /\ buf' = <<>>
    /\ op' = [NoOp EXCEPT !.name = "new"]
    /\ UNCHANGED <<T, RATE, spec>>

\* PoseidonHash::update(elements)
Update ==
    /\ phase = "ready"
    /\ \E elements \in SeqsUpTo(MaxBatch, Elems) :
        /\ Len(buf) + Len(elements) <= MaxBuf
        /\ buf' = update(buf, elements)
        /\ op' = [NoOp EXCEPT !.name = "update", !.arg = elements, !.pre = state]
    /\ UNCHANGED <<T, RATE, spec, phase, state>>

\* PoseidonHash::squeeze() = output(): the buffer is taken (left empty) before
\* anything can panic, and the digest is state.inner[1].
Squeeze ==
    /\ phase = "ready"
    /\ \E r \in {output(T, RATE, spec, state, buf)} :
           /\ buf' = <<>>
           /\ state' = r.inner
           /\ phase' = IF r.panic = "none" THEN "ready" ELSE "panicked"
           /\ op' = [name |-> "squeeze", arg |-> buf, pre |-> state,
                     calls |-> r.calls, trace |-> r.trace, before |-> r.before,
                     out |-> IF r.panic = "none" THEN <<r.inner[2]>> ELSE <<>>,
                     panic |-> r.panic]
    /\ UNCHANGED <<T, RATE, spec>>

\* One call of PoseidonHash::permutation on the hasher's state, with the
\* inputs output can pass it: a chunk of at most RATE elements, or none.
Permutation ==
    /\ phase = "ready"
    /\ \E inputs \in SeqsUpTo(RATE, Elems) :
       \E r \in {permutation(T, RATE, spec, state, inputs)} :
           /\ state' = r.inner
           /\ phase' = IF r.panic = "none" THEN "ready" ELSE "panicked"
           /\ op' = [name |-> "permutation", arg |-> inputs, pre |-> state,
                     calls |-> <<inputs>>, trace |-> r.trace, before |-> state,
                     out |-> <<>>, panic |-> r.panic]
    /\ UNCHANGED <<T, RATE, spec, buf>>

\* State::apply_sparse_mds on any state, with any sparse matrix.
ApplySparseMds ==
    /\ op.name = "init"
    /\ \E row \in Vectors(T, 0 .. MaxCoef), col_hat \in Vectors(RATE, 0 .. MaxCoef) :
           /\ state' = apply_sparse_mds(state, [row |-> row, col_hat |-> col_hat])
           /\ op' = [NoOp EXCEPT !.name = "apply_sparse_mds",
                                 !.arg = [row |-> row, col_hat |-> col_hat],
                                 !.pre = state]
    /\ UNCHANGED <<T, RATE, spec, phase, buf>>

\* State::pre_round on any state, with any inputs and constants its
\* assertions let through.
PreRound ==
    /\ op.name = "init"
    /\ \E inputs \in SeqsUpTo(RATE, Elems), pre_constants \in Vectors(T, 0 .. MaxCoef) :
           /\ pre_round_assert(T, RATE, inputs) = "none"
           /\ state' = pre_round(state, inputs, pre_constants)
           /\ op' = [NoOp EXCEPT !.name = "pre_round",
                                 !.arg = <<inputs, pre_constants>>,
                                 !.pre = state]
    /\ UNCHANGED <<T, RATE, spec, phase, buf>>

\* ------------------------------------------------------------ specifications
\* The hasher type is instantiated at any T >= 2 and RATE >= 1 (the digest
\* word needs T >= 2; RATE = 0 divides by zero in output), with a well-formed
\* parameter set; nothing is constructed yet.
Init ==
    /\ T \in 2 .. MaxT
    /\ RATE \in 1 .. MaxT
    /\ spec = FullSpec(T, RATE)
    /\ phase = "none"
    /\ state = <<>>
    /\ buf = <<>>
    /\ op = NoOp

Next == New \/ Update \/ Squeeze

\* The sponge: new, update and squeeze in any order.
Spec == Init /\ [][Next]_vars

\* One permutation of a drawn state, under every well-formed parameter set,
\* RATE = T - 1.
InitRounds ==
    /\ T \in 2 .. MaxT
    /\ RATE = T - 1
    /\ spec \in WellFormedSpecs(T, RATE)
    /\ phase = "ready"
    /\ state \in Vectors(T, 0 .. MaxCoef)
    /\ buf = <<>>
    /\ op = NoOp

NextRounds == op.name = "init" /\ Permutation

SpecRounds == InitRounds /\ [][NextRounds]_vars

\* Construction and permutations under parameter sets of any lengths.
InitAnySpec ==
    /\ T \in 2 .. MaxT
    /\ RATE = T - 1
    /\ spec \in AnySpecs(T, RATE)
    /\ phase = "none"
    /\ state = <<>>
    /\ buf = <<>>
    /\ op = NoOp

NextAnySpec == New \/ Permutation

SpecAnySpec == InitAnySpec /\ [][NextAnySpec]_vars

\* The round primitives on every state.
InitState ==
    /\ T \in 2 .. MaxT
    /\ RATE = T - 1
    /\ spec = FullSpec(T, RATE)
    /\ phase = "ready"
    /\ state \in Vectors(T, Field)
    /\ buf = <<>>
    /\ op = NoOp

SpecSparse == InitState /\ [][ApplySparseMds]_vars

SpecPreRound == InitState /\ [][PreRound]_vars

\* -------------------------------------------------------------- properties
SameSteps(x, y) ==
    /\ Len(x) = Len(y)
    /\ \A k \in 1 .. Len(x) : x[k].op = y[k].op /\ x[k].arg = y[k].arg

CountOp(steps, name) == Cardinality({k \in 1 .. Len(steps) : steps[k].op = name})

\* The round schedule as the specification lists it, step by position.
ExpectedSteps(s, t, inputs) ==
    LET h == s.r_f \div 2
        a == 1 + 2 * (h - 1)
        b == a + 2
        c == b + 2 * s.r_p
        d == c + 2 * h
    IN  [k \in 1 .. d + 2 |->
           IF k = 1 THEN Step("pre_round", <<inputs, s.start[1]>>)
           ELSE IF k <= a THEN
               (IF k % 2 = 0 THEN Step("sbox_full", s.start[1 + (k \div 2)])
                ELSE Step("apply_mds", s.mds))
           ELSE IF k = a + 1 THEN Step("sbox_full", s.start[h])
           ELSE IF k = b THEN Step("apply_mds", s.pre_sparse_mds)
           ELSE IF k <= c THEN
               (IF (k - b) % 2 = 1
                THEN Step("sbox_part", <<s.partial[(k - b + 1) \div 2]>>)
                ELSE Step("apply_sparse_mds", s.sparse_matrices[(k - b) \div 2]))
           ELSE IF k <= d THEN
               (IF (k - c) % 2 = 1
                THEN Step("sbox_full", s.end[(k - c + 1) \div 2])
                ELSE Step("apply_mds", s.mds))
           ELSE IF k = d + 1 THEN Step("sbox_full", [j \in 1 .. t |-> 0])
           ELSE Step("apply_mds", s.mds)]

\* The dense t x t matrix a sparse matrix stands for: row 0 is row, column 0
\* below it is col_hat, the rest is the identity.
DenseEquivalent(m, t) ==
    [i \in 1 .. t |-> [j \in 1 .. t |->
        IF i = 1 THEN m.row[j]
        ELSE IF j = 1 THEN m.col_hat[i - 1]
        ELSE IF i = j THEN 1 % P ELSE 0]]

RECURSIVE SumProducts(_, _, _)
SumProducts(row, v, n) ==
    IF n = 0 THEN 0 ELSE SumProducts(row, v, n - 1) + row[n] * v[n]

\* C1 as stated: with RATE = T - 1 >= 1, one squeeze calls permutation on
\* the consecutive RATE-sized chunks of the buffer it found, in buffer order
\* (ceil(n / RATE) calls, only the last possibly shorter), and then once more
\* with no input exactly when n mod RATE = 0 (n = 0 included); RATE + 1
\* elements make exactly two calls, of RATE elements and of 1.
C1_AsStated ==
    (op.name = "squeeze" /\ RATE = T - 1) =>
        LET n == Len(op.arg)
            full == (n + RATE - 1) \div RATE
        IN  /\ Len(op.calls) = full + (IF n % RATE = 0 THEN 1 ELSE 0)
            /\ \A i \in 1 .. full :
                  op.calls[i] = SubSeq(op.arg, (i - 1) * RATE + 1, Min(i * RATE, n))
            /\ \A i \in 1 .. full - 1 : Len(op.calls[i]) = RATE
            /\ (n % RATE = 0) <=> (op.calls[Len(op.calls)] = <<>>)
            /\ (n = RATE + 1) =>
                  /\ Len(op.calls) = 2
                  /\ Len(op.calls[1]) = RATE
                  /\ Len(op.calls[2]) = 1

\* C1, amended: the same, the two calls for RATE + 1 elements being claimed
\* for RATE >= 2 only (with RATE = 1, two elements are an exact multiple of
\* RATE and a third call, with no input, follows the two chunks).
C1_SqueezeChunksThenPads ==
    (op.name = "squeeze" /\ RATE = T - 1) =>
        LET n == Len(op.arg)
            full == (n + RATE - 1) \div RATE
        IN  /\ Len(op.calls) = full + (IF n % RATE = 0 THEN 1 ELSE 0)
            /\ \A i \in 1 .. full :
                  op.calls[i] = SubSeq(op.arg, (i - 1) * RATE + 1, Min(i * RATE, n))
            /\ \A i \in 1 .. full - 1 : Len(op.calls[i]) = RATE
            /\ (n % RATE = 0) <=> (op.calls[Len(op.calls)] = <<>>)
            /\ (n = RATE + 1 /\ RATE >= 2) =>
                  /\ Len(op.calls) = 2
                  /\ Len(op.calls[1]) = RATE
                  /\ Len(op.calls[2]) = 1

\* A squeeze that found RATE + 1 elements (RATE >= 2) and made two calls.
C1_Witness ==
    /\ op.name = "squeeze"
    /\ RATE = T - 1
    /\ RATE >= 2
    /\ Len(op.arg) = RATE + 1
    /\ Len(op.calls) = 2
    /\ op.panic = "none"

\* C4: update only appends: the buffer after the call is the buffer before
\* followed by the elements in order, the permutation state and the parameter
\* set are unchanged and no permutation is called, also between squeezes.
C4_UpdateOnlyAppends ==
    [][op'.name = "update" =>
          /\ buf' = buf \o op'.arg
          /\ state' = state
          /\ spec' = spec
          /\ phase' = phase
          /\ op'.calls = <<>>]_vars

\* An update of a non-empty buffer, after a squeeze has changed the state.
C4_Witness ==
    /\ op.name = "update"
    /\ Len(op.arg) = 2
    /\ op.arg[1] # op.arg[2]
    /\ Len(buf) > Len(op.arg)
    /\ state # InitialWords(T)

\* C5: when RATE # T - 1 construction fails, so no hasher exists to absorb
\* into or squeeze from, and the violation is not first met inside a squeeze.
C5_DimensionCheckedAtConstruction ==
    /\ (RATE # T - 1) => phase = "none"
    /\ ~(op.name = "squeeze" /\ op.panic = "dimension")

\* C6: a parameter set whose sequences do not have the lengths r_f / 2 and
\* r_p is refused at construction, and no permutation runs on fewer partial
\* rounds than there are partial constants or sparse matrices.
C6_ParameterSetValidatedAtConstruction ==
    /\ phase # "none" => WellFormed(spec)
    /\ (op.name = "permutation" /\ op.panic = "none") =>
          /\ CountOp(op.trace, "sbox_part") = Len(spec.partial)
          /\ CountOp(op.trace, "apply_sparse_mds") = Len(spec.sparse_matrices)
          /\ CountOp(op.trace, "sbox_part") = spec.r_p

\* C7: under a well-formed parameter set one permutation takes exactly the
\* steps of the round schedule, in its order, each with the constant or
\* matrix the schedule names, the inputs entering the first step only; the
\* state it leaves is the state it found taken through those steps.
C7_PermutationFollowsSchedule ==
    (op.name = "permutation" /\ op.panic = "none" /\ WellFormed(spec)) =>
        /\ SameSteps(op.trace, ExpectedSteps(spec, T, op.arg))
        /\ state = run_steps(op.before, ExpectedSteps(spec, T, op.arg), 1)
        /\ \A k \in 2 .. Len(op.trace) : op.trace[k].op # "pre_round"

\* A permutation with an input, r_f = 4 and r_p = 2: 15 steps.
C7_Witness ==
    /\ op.name = "permutation"
    /\ op.panic = "none"
    /\ spec.r_f = 4
    /\ spec.r_p = 2
    /\ Len(op.arg) >= 1
    /\ Len(op.trace) = 15
    /\ state # op.before

\* C8: apply_sparse_mds leaves the state apply_mds leaves with the dense
\* equivalent of the sparse matrix: word 0 is the dot product of row with the
\* old state, word i >= 1 is col_hat[i-1] * old word 0 + old word i.
C8_SparseEqualsDense ==
    op.name = "apply_sparse_mds" =>
        /\ state = apply_mds(op.pre, DenseEquivalent(op.arg, T))
        /\ Len(state) = T
        /\ state[1] = SumProducts(op.arg.row, op.pre, T) % P
        /\ \A i \in 2 .. T :
              state[i] = (op.arg.col_hat[i - 1] * op.pre[1] + op.pre[i]) % P

\* A sparse product that changes word 0 and feeds the old word 0 to word 1.
C8_Witness ==
    /\ op.name = "apply_sparse_mds"
    /\ T = 3
    /\ op.arg.col_hat[1] = 1
    /\ op.pre[1] # 0
    /\ state[1] # op.pre[1]

\* C9: pre_round with k <= RATE inputs and constants c adds c[0] to word 0,
\* input[i] + c[1+i] to word 1+i for i < k, one + c[1+k] to word 1+k (if
\* there is one), and c[j] alone to every later word j.
C9_PreRoundAbsorbsAndPads ==
    op.name = "pre_round" =>
        LET inputs == op.arg[1]
            c == op.arg[2]
            k == Len(inputs)
        IN  /\ Len(state) = T
            /\ \A j \in 1 .. T :
                  state[j] =
                      (op.pre[j]
                       + (IF j = 1 THEN c[1]
                          ELSE IF j - 1 <= k THEN inputs[j - 1] + c[j]
                          ELSE IF j = k + 2 THEN 1 + c[j]
                          ELSE c[j])) % P

\* pre_round with no input at T = 3: word 1 is padded, word 2 only gets its
\* constant.
C9_Witness ==
    /\ op.name = "pre_round"
    /\ T = 3
    /\ Len(op.arg[1]) = 0
    /\ state[2] = (op.pre[2] + 1 + op.arg[2][2]) % P
    /\ state[3] = (op.pre[3] + op.arg[2][3]) % P

\* C10: with RATE = T - 1 no permutation call of a squeeze is given more
\* than RATE elements, the over-capacity assertion never fires, every squeeze
\* returns a value and leaves the buffer empty.
C10_NeverOverCapacity ==
    /\ op.panic # "overcapacity"
    /\ (op.name = "squeeze" /\ RATE = T - 1) =>
          /\ op.panic = "none"
          /\ phase = "ready"
          /\ Len(op.out) = 1
          /\ op.out[1] = state[2]
          /\ buf = <<>>
          /\ \A i \in 1 .. Len(op.calls) : Len(op.calls[i]) <= RATE

\* A squeeze of more than RATE elements, on a hasher squeezed before.
C10_Witness ==
    /\ op.name = "squeeze"
    /\ RATE = T - 1
    /\ Len(op.arg) > RATE
    /\ op.pre # InitialWords(T)
    /\ Len(op.out) = 1
    /\ buf = <<>>

====
